---------------------------- MODULE Spec2Model ----------------------------
(***************************************************************************)
(* Context ingestion of the AI review analyzer: the text chunker           *)
(* (utils/textProcessing.ts), the file-upload handler (pages/api/upload.ts)*)
(* and the URL-scrape handler (pages/api/scrape.ts) writing to the shared  *)
(* "context" collection of the JSON store (utils/db.ts), the retrieval by  *)
(* cosine similarity on that collection (findSimilarContexts), the token  *)
(* estimate and chunk titles the handlers use, the scraping paths of the   *)
(* scrape handler, and the prompt context the review analysis compiles     *)
(* from the records found.                                                 *)
(*                                                                         *)
(* Strings are sequences of one-character strings.  Indices into a string  *)
(* are 0-based as in the source; CharAt-style accesses add 1.              *)
(***************************************************************************)
EXTENDS Integers, Sequences, FiniteSets, TLC

\* ------------------------------------------------------------------ bounds
\* Longest text handed to splitTextIntoChunks.
MaxTextLen == 5
\* Largest chunkSize argument (1..MaxChunkSize).
MaxChunkSize == 3
\* Largest overlap argument (0..MaxOverlap).
MaxOverlap == 3
\* Largest number of chunks one ingested document is split into.
MaxChunks == 2
\* Largest number of records in a store handed to findSimilarContexts.
MaxStore == 3
\* Largest number of findSimilarContexts calls on one store and query.
MaxFindCalls == 2
\* Latest value of Date.now(), counted from the first request.
MaxNow == 1
\* Length of the longest break-free document of the ingestion scenario.
ScenarioChars == 10000

\* The chunk size of the texts that exercise the break windows.
WindowChunkSize == 300

\* --------------------------------------------------------------- constants
\* "paragraphBreak > endIndex - 200"
ParagraphWindow == 200
\* "sentenceBreak > endIndex - 100"
SentenceWindow == 100
\* "content.length < 500" (scrape.ts)
MinStaticLength == 500
\* "db.findSimilarContexts(reviewEmbedding, 5)" (ReviewAnalyzer.tsx)
RetrievalLimit == 5
\* "estimatedTokens + itemTokens > 4000"
PromptTokenLimit == 4000
\* "estimatedTokens += 5; // Add tokens for the header"
HeaderTokens == 5
\* "estimatedTokens += itemTokens + 2; // +2 for the newlines"
SeparatorTokens == 2
\* "chunkSize: number = 4000", "overlap: number = 200"
DefaultChunkSize == 4000
DefaultOverlap == 200
\* "const MAX_TOKENS = 8000"
MAX_TOKENS == 8000
\* "Math.ceil(text.length / 4)"
CharsPerToken == 4
\* "firstLine.length > 50 ? firstLine.substring(0, 50) + "..." : firstLine"
PreviewLength == 50

VARIABLES
    \* splitTextIntoChunks: its arguments, locals and position
    text,        \* argument text
    chunkSize,   \* argument chunkSize
    overlap,     \* argument overlap
    startIndex,  \* local startIndex
    chunks,      \* local chunks: the strings pushed so far; the result at "done"
    cuts,        \* history: <<startIndex, endIndex>> of each pushed slice
    cpc,         \* "call" | "loop" | "done"
    \* the store and the ingestion calls (a file of an upload request, or a
    \* scrape request)
    db,              \* db.get("context"): the sequence of context records
    hpc,             \* per call: "idle" | "embedding" | "done"
    kind,            \* per call: "none" | "file" | "url"
    content,         \* per call: the extracted text
    results,         \* per call: chunkResults, one entry per chunk
    contextItems,    \* per call: the scrape handler's local contextItems
    embedRequested,  \* history: chunk indices passed to embeddings.embedQuery
    chunkerCalled,   \* history: splitTextIntoChunks was invoked
    report,          \* per call: what the handler returns for it
    \* findSimilarContexts: its arguments, locals and position
    queryEmbedding,  \* argument queryEmbedding
    limit,           \* argument limit
    withSimilarity,  \* local withSimilarity: the map callback's results, up
                     \* to the first that threw
    found,           \* the array returned
    fpc,             \* "idle" | "called" | "returned" | "thrown"
    ncalls,          \* history: number of calls made with these arguments
    \* the clock and the token estimate
    now,             \* Date.now()
    estimatedTokens, \* the handlers' local estimatedTokens
    \* the scraping of one scrape request
    site,             \* what the URL serves: the request's input
    spc,              \* position in the scraping code
    scrapingMethod,   \* local scrapingMethod
    scrapedLength,    \* content.length of the local content
    dynamicAttempts,  \* history: calls of scrapeDynamicContent
    \* the prompt context of one review analysis
    context,  \* local context: the parts appended so far
    cursor,   \* the for-of loop's position in contextualContent
    ppc       \* "start" | "loop" | "done"

chunkVars == <<text, chunkSize, overlap, startIndex, chunks, cuts, cpc>>
ingestVars == <<db, hpc, kind, content, results, contextItems,
                embedRequested, chunkerCalled, report>>

findVars == <<queryEmbedding, limit, withSimilarity, found, fpc, ncalls>>

scrapeVars == <<site, spc, scrapingMethod, scrapedLength, dynamicAttempts>>
promptVars == <<context, cursor, ppc>>

vars == <<chunkVars, ingestVars, findVars, now, estimatedTokens, scrapeVars,
          promptVars>>


\* --------------------------------------------------------- string helpers
Min(a, b) == IF a < b THEN a ELSE b
Max(a, b) == IF a > b THEN a ELSE b
SetMax(S) == CHOOSE x \in S : \A y \in S : y <= x

Alphabet == {"a", " ", ".", "\n"}
Texts == UNION {[1..n -> Alphabet] : n \in 0..MaxTextLen}

PARAGRAPH == <<"\n", "\n">>
SENTENCE == <<".", " ">>
SPACE == <<" ">>

\* String.prototype.lastIndexOf(search, fromIndex): the largest index
\* i <= min(max(fromIndex, 0), length - search.length) at which search occurs,
\* or -1.
lastIndexOf(t, search, fromIndex) ==
    LET n == Len(t)
        m == Len(search)
        k == Min(Max(fromIndex, 0), n - m)
        hits == {i \in 0..k : SubSeq(t, i + 1, i + m) = search}
    IN  IF hits = {} THEN -1 ELSE SetMax(hits)

\* String.prototype.slice(start, end): negative indices count from the end,
\* both are clamped to the string, an empty range gives "".
slice(t, start, end) ==
    LET n == Len(t)
        from == IF start < 0 THEN Max(n + start, 0) ELSE Min(start, n)
        to == IF end < 0 THEN Max(n + end, 0) ELSE Min(end, n)
    IN  SubSeq(t, from + 1, to)

\* String.prototype.trim(): without leading and trailing whitespace.
Whitespace == {" ", "\n", "\t"}
RECURSIVE FirstKept(_, _)
FirstKept(t, i) ==
    IF i > Len(t) \/ t[i] \notin Whitespace THEN i ELSE FirstKept(t, i + 1)
RECURSIVE LastKept(_, _)
LastKept(t, i) ==
    IF i = 0 \/ t[i] \notin Whitespace THEN i ELSE LastKept(t, i - 1)
trim(t) == SubSeq(t, FirstKept(t, 1), LastKept(t, Len(t)))

\* String.prototype.startsWith(prefix).
startsWith(t, prefix) ==
    Len(t) >= Len(prefix) /\ SubSeq(t, 1, Len(prefix)) = prefix

\* ------------------------------------------------------ extracted texts
\* The failure sentinels of readFileContent, up to the error message.
ERR_PARSE_PDF ==
    <<"[", "E", "r", "r", "o", "r", " ", "p", "a", "r", "s", "i", "n", "g",
      " ", "P", "D", "F", ":">>
ERR_READ_PDF ==
    <<"[", "E", "r", "r", "o", "r", " ", "r", "e", "a", "d", "i", "n", "g",
      " ", "P", "D", "F", " ", "f", "i", "l", "e", ":">>
ERR_EXCEL ==
    <<"[", "E", "r", "r", "o", "r", " ", "p", "r", "o", "c", "e", "s", "s",
      "i", "n", "g", " ", "E", "x", "c", "e", "l", " ", "f", "i", "l", "e",
      ":">>
ERR_CSV ==
    <<"[", "E", "r", "r", "o", "r", " ", "p", "r", "o", "c", "e", "s", "s",
      "i", "n", "g", " ", "C", "S", "V", " ", "f", "i", "l", "e", ":">>
\* " ${error.message}]" with the message "x"
ERR_TAIL == <<" ", "x", "]">>
PLAIN == <<"a", "b">>
BLANK == <<" ", "\n">>
DIGITS == <<"0", "1", "2", "3", "4", "5", "6", "7", "8", "9">>

\* An extracted text.  A text whose token estimate is within MAX_TOKENS is
\* given in full by chars (parts = 1).  A text over MAX_TOKENS is given by
\* its leading characters and by parts, the number of chunks
\* splitTextIntoChunks(content) returns for it (parts > 1); it goes on with
\* non-blank characters after chars.
Doc(chars, parts) == [chars |-> chars, parts |-> parts]

\* "!content || content.trim() === """
IsEmptyContent(doc) == doc.parts = 1 /\ (doc.chars = <<>> \/ trim(doc.chars) = <<>>)

\* "estimatedTokens > MAX_TOKENS ? splitTextIntoChunks(content) : [content]":
\* the chunk texts, the i-th chunk of a split text named by its index.
UsesChunker(doc) == doc.parts > 1
TextChunks(doc) ==
    IF UsesChunker(doc)
    THEN [k \in 1..doc.parts |-> doc.chars \o <<"#", DIGITS[k]>>]
    ELSE <<doc.chars>>

\* readFileContent(filepath, mimetype) for a file of type mime whose
\* extraction ends as outcome: "readError" (the file cannot be read),
\* "parseError" (the parser throws), "empty" (no text), "blank" (whitespace
\* only), "text" (a short text) or "long" (a text over MAX_TOKENS).
readFileContent(file) ==
    CASE file.mime = "pdf" ->
            CASE file.outcome = "readError" -> Doc(ERR_READ_PDF \o ERR_TAIL, 1)
              [] file.outcome = "parseError" -> Doc(ERR_PARSE_PDF \o ERR_TAIL, 1)
              [] file.outcome = "text" -> Doc(PLAIN, 1)
              [] OTHER -> Doc(<<>>, 1)
      [] file.mime = "excel" ->
            CASE file.outcome \in {"readError", "parseError"} ->
                    Doc(ERR_EXCEL \o ERR_TAIL, 1)
              [] OTHER -> Doc(PLAIN, 1)
      [] file.mime = "csv" ->
            CASE file.outcome \in {"readError", "parseError"} ->
                    Doc(ERR_CSV \o ERR_TAIL, 1)
              [] OTHER -> Doc(PLAIN, 1)
      [] OTHER ->
            CASE file.outcome = "text" -> Doc(PLAIN, 1)
              [] file.outcome = "blank" -> Doc(BLANK, 1)
              [] file.outcome = "long" -> Doc(PLAIN, file.parts)
              [] OTHER -> Doc(<<>>, 1)

\* The uploaded files the model draws from.
Files ==
    {[mime |-> "pdf", outcome |-> o, parts |-> 1] :
        o \in {"readError", "parseError", "empty", "text"}}
    \cup {[mime |-> m, outcome |-> o, parts |-> 1] :
        m \in {"excel", "csv"}, o \in {"parseError", "text"}}
    \cup {[mime |-> "text", outcome |-> o, parts |-> 1] :
        o \in {"readError", "blank", "text"}}
    \cup {[mime |-> "text", outcome |-> "long", parts |-> n] : n \in 2..MaxChunks}

\* What scraping a URL (scrape.ts lines 157-257) ends with: an exception, or
\* the page text.
Pages ==
    {[outcome |-> o, parts |-> 1] : o \in {"throw", "empty", "text"}}
    \cup {[outcome |-> "long", parts |-> n] : n \in 2..MaxChunks}
scrapeContent(page) ==
    CASE page.outcome = "text" -> Doc(PLAIN, 1)
      [] page.outcome = "long" -> Doc(PLAIN, page.parts)
      [] OTHER -> Doc(<<>>, 1)

\* ------------------------------------------------------------ the handlers
Calls == {"A", "B"}

\* chunkResults entries: "pending" while the chunk's callback awaits the
\* embedding, then "ok", or the error caught: "embedError" (embedQuery
\* rejected) or "storeError" (db.set threw).
Indices(n) == [k \in 1..n |-> k - 1]
SuccessfulChunks(res) ==
    SelectSeq(Indices(Len(res)), LAMBDA i : res[i + 1] = "ok")
FailedChunks(res) ==
    LET failed == SelectSeq(Indices(Len(res)), LAMBDA i : res[i + 1] # "ok")
    IN  [k \in 1..Len(failed) |->
            [chunkIndex |-> failed[k], error |-> res[failed[k] + 1]]]

NoReport ==
    [error |-> "", totalChunks |-> 0, successfulChunks |-> 0,
     failedCount |-> 0, chunks |-> <<>>, failedChunks |-> <<>>]
ErrorReport(msg) == [NoReport EXCEPT !.error = msg]

\* upload.ts lines 509-528: the report of one file.
FileReportMiscount(res) ==
    [error |-> "",
     totalChunks |-> Len(SuccessfulChunks(res)),
     successfulChunks |-> Len(SuccessfulChunks(res)),
     failedCount |-> Len(FailedChunks(res)),
     chunks |-> SuccessfulChunks(res),
     failedChunks |-> FailedChunks(res)]
FileReport(res) ==
    [error |-> "",
     totalChunks |-> Len(res),
     successfulChunks |-> Len(SuccessfulChunks(res)),
     failedCount |-> Len(FailedChunks(res)),
     chunks |-> SuccessfulChunks(res),
     failedChunks |-> FailedChunks(res)]

\* scrape.ts lines 347-378: the response; it carries the number of failed
\* chunks, not their entries, and one entry per item of contextItems, in
\* the order in which the items were pushed.
ScrapeReport(res, items) ==
    [error |-> "",
     totalChunks |-> Len(res),
     successfulChunks |-> Len(SuccessfulChunks(res)),
     failedCount |-> Len(FailedChunks(res)),
     chunks |-> [k \in 1..Len(items) |-> items[k].chunkIndex],
     failedChunks |-> <<>>]

\* The context item built for chunk index of call c.
ContextItem(c, source, index, chunk) ==
    [call |-> c, source |-> source, chunkIndex |-> index, content |-> chunk]

\* "existingContext = db.get("context") || []; existingContext.push(...);
\* db.set("context", existingContext)", with no await in between.
StoreOverwrite(collection, items) == items
StorePrepend(collection, items) == items \o collection
StoreStale(collection, items) ==
    SubSeq(collection, 1, Len(collection) - 1) \o items
StoreAppend(collection, items) == collection \o items

HandlersIdle ==
    /\ hpc = [c \in Calls |-> "idle"]
    /\ content = [c \in Calls |-> Doc(<<>>, 1)]
    /\ results = [c \in Calls |-> <<>>]
    /\ contextItems = [c \in Calls |-> <<>>]
    /\ embedRequested = [c \in Calls |-> {}]
    /\ chunkerCalled = [c \in Calls |-> FALSE]
    /\ report = [c \in Calls |-> NoReport]
IngestIdle ==
    /\ db = <<>>
    /\ kind = [c \in Calls |-> "none"]
    /\ HandlersIdle

\* No scrape request is being served, no prompt is being compiled.
ScrapeIdle ==
    /\ site = [fetch |-> "ok", csr |-> FALSE, staticLength |-> 0,
               dynamicLength |-> 0]
    /\ spc = "idle"
    /\ scrapingMethod = "static"
    /\ scrapedLength = 0
    /\ dynamicAttempts = 0
PromptIdle ==
    /\ context = <<>>
    /\ cursor = 0
    /\ ppc = "idle"

\* ------------------------------------------------ findSimilarContexts
\* Embeddings are sequences of integers.  A similarity
\* dotProduct / (Math.sqrt(normA) * Math.sqrt(normB)) is kept exactly, as the
\* pair num, sq that stands for num / sqrt(sq); sq = 0 is the NaN of 0 / 0.
Number(num, sq) == [threw |-> FALSE, num |-> num, sq |-> sq]
Zero == Number(0, 1)
\* "throw new Error("Vectors must have the same length")"
LengthError == [threw |-> TRUE, num |-> 0, sq |-> 0]

\* The sums of the loop of lines 123-127.
DotProduct(a, b) ==
    LET S[i \in 0..Len(a)] == IF i = 0 THEN 0 ELSE S[i - 1] + a[i] * b[i]
    IN  S[Len(a)]

\* cosineSimilarity(vectorA, vectorB), lines 114-134.
cosineSimilarityUnguarded(vectorA, vectorB) ==
    IF Len(vectorA) # Len(vectorB)
    THEN LengthError
    ELSE Number(DotProduct(vectorA, vectorB),
                DotProduct(vectorA, vectorA) * DotProduct(vectorB, vectorB))
cosineSimilarity(vectorA, vectorB) ==
    IF Len(vectorA) # Len(vectorB)
    THEN LengthError
    ELSE LET dotProduct == DotProduct(vectorA, vectorB)
             normA == DotProduct(vectorA, vectorA)
             normB == DotProduct(vectorB, vectorB)
         IN  IF normA = 0 \/ normB = 0
             THEN Zero
             ELSE Number(dotProduct, normA * normB)

\* x < y for two similarities: num / sqrt(sq) is ordered as
\* sign(num) * num^2 / sq.  A comparison with NaN is false.
SignedSquare(n) == IF n < 0 THEN 0 - n * n ELSE n * n
Less(x, y) ==
    /\ x.sq > 0 /\ y.sq > 0
    /\ SignedSquare(x.num) * y.sq < SignedSquare(y.num) * x.sq

\* this.get("context"): the collection, or undefined when the key is absent.
Collection(items) == [present |-> TRUE, items |-> items]
Absent == [present |-> FALSE, items |-> <<>>]

\* "item.embedding && item.embedding.length > 0": a record without an
\* embedding is one whose embedding is <<>> here.
QualifiesAlways(item) == TRUE
Qualifies(item) == item.embedding # <<>>

\* "{ ...item, similarity }": a copy of the record with the score.
Scored(item, similarity) ==
    [id |-> item.id, embedding |-> item.embedding, similarity |-> similarity]

\* ".filter(...).map(...)" (lines 97-105): the scored copies, in store order;
\* the map ends at the first callback that throws.
ScoreAll(items, query) ==
    LET kept == SelectSeq(items, Qualifies)
    IN  [k \in 1..Len(kept) |->
            Scored(kept[k], cosineSimilarity(query, kept[k].embedding))]
FirstThrow(scored) ==
    LET bad == {k \in DOMAIN scored : scored[k].similarity.threw}
    IN  IF bad = {} THEN 0 ELSE CHOOSE k \in bad : \A j \in bad : k <= j
MapScores(items, query) ==
    LET scored == ScoreAll(items, query)
    IN  IF FirstThrow(scored) = 0 THEN scored
        ELSE SubSeq(scored, 1, FirstThrow(scored))

\* ".sort((a, b) => b.similarity - a.similarity)": Array.prototype.sort is
\* stable; an element goes behind every element that does not compare
\* after it.
InsertBeforeTies(sorted, x) ==
    LET k == Cardinality({j \in DOMAIN sorted :
                            Less(x.similarity, sorted[j].similarity)})
    IN  SubSeq(sorted, 1, k) \o <<x>> \o SubSeq(sorted, k + 1, Len(sorted))
InsertSorted(sorted, x) ==
    LET k == Cardinality({j \in DOMAIN sorted :
                            ~Less(sorted[j].similarity, x.similarity)})
    IN  SubSeq(sorted, 1, k) \o <<x>> \o SubSeq(sorted, k + 1, Len(sorted))
SortBySimilarity(scored) ==
    LET S[i \in 0..Len(scored)] ==
            IF i = 0 THEN <<>> ELSE InsertSorted(S[i - 1], scored[i])
    IN  S[Len(scored)]

\* ".slice(0, limit)"
TopOneMore(sorted, n) == slice(sorted, 0, n + 1)
Top(sorted, n) == slice(sorted, 0, n)

\* findSimilarContexts(queryEmbedding, limit) on the collection contexts
\* (lines 86-111): what it returns, or that it threw.
findSimilarContexts(contexts, query, n) ==
    IF ~contexts.present \/ Len(contexts.items) = 0
    THEN [threw |-> FALSE, value |-> <<>>]
    ELSE LET scored == MapScores(contexts.items, query)
         IN  IF FirstThrow(scored) # 0
             THEN [threw |-> TRUE, value |-> <<>>]
             ELSE [threw |-> FALSE, value |-> Top(SortBySimilarity(scored), n)]

\* The collection after a findSimilarContexts call: filter, map with a
\* spread copy, sort and slice build new arrays and objects, and nothing is
\* assigned to contexts or to its items.
ContextsScoredInPlace(items, query) ==
    [k \in DOMAIN items |->
        IF Qualifies(items[k])
        THEN Scored(items[k], cosineSimilarity(query, items[k].embedding))
        ELSE items[k]]
ContextsAfterFind(items, query) == items

\* The embeddings and queries the model draws from, and the stores: up to
\* MaxStore records, the id of a record being its position.
Embeddings ==
    {<<>>, <<1>>, <<0, 0>>, <<1, 0>>, <<2, 0>>, <<1, 1>>, <<-1, 0>>}
Queries == {<<1>>, <<0, 0>>, <<1, 0>>, <<1, 1>>}
Stores ==
    UNION {{[k \in 1..n |-> [id |-> k, embedding |-> f[k]]] :
                f \in [1..n -> Embeddings]} : n \in 0..MaxStore}
Limits == 0..(MaxStore + 1)

FindIdle ==
    /\ queryEmbedding = <<>>
    /\ limit = 0
    /\ withSimilarity = <<>>
    /\ found = <<>>
    /\ fpc = "idle"
    /\ ncalls = 0


\* ------------------------------------------------- splitTextIntoChunks
\* "if (!text || text.length <= chunkSize) return [text]"
ReturnsWholeStrict(t, size) == t = <<>> \/ Len(t) < size
ReturnsWhole(t, size) == t = <<>> \/ Len(t) <= size

\* The end index of the chunk that starts at start (lines 167-184).
ChunkEndUnbounded(t, start, size) ==
    LET endIndex == start + size
        paragraphBreak == lastIndexOf(t, PARAGRAPH, Len(t))
        sentenceBreak == lastIndexOf(t, SENTENCE, Len(t))
        wordBreak == lastIndexOf(t, SPACE, Len(t))
    IN  IF endIndex < Len(t)
        THEN IF paragraphBreak > start /\ paragraphBreak > endIndex - ParagraphWindow
             THEN paragraphBreak + 2
             ELSE IF sentenceBreak > start /\ sentenceBreak > endIndex - SentenceWindow
             THEN sentenceBreak + 2
             ELSE IF wordBreak > start
             THEN wordBreak + 1
             ELSE endIndex
        ELSE endIndex
ChunkEndNoWindow(t, start, size) ==
    LET endIndex == start + size
        paragraphBreak == lastIndexOf(t, PARAGRAPH, endIndex)
        sentenceBreak == lastIndexOf(t, SENTENCE, endIndex)
        wordBreak == lastIndexOf(t, SPACE, endIndex)
    IN  IF endIndex < Len(t)
        THEN IF paragraphBreak > start
             THEN paragraphBreak + 2
             ELSE IF sentenceBreak > start
             THEN sentenceBreak + 2
             ELSE IF wordBreak > start
             THEN wordBreak + 1
             ELSE endIndex
        ELSE endIndex
ChunkEnd(t, start, size) ==
    LET endIndex == start + size
        paragraphBreak == lastIndexOf(t, PARAGRAPH, endIndex)
        sentenceBreak == lastIndexOf(t, SENTENCE, endIndex)
        wordBreak == lastIndexOf(t, SPACE, endIndex)
    IN  IF endIndex < Len(t)
        THEN IF paragraphBreak > start /\ paragraphBreak > endIndex - ParagraphWindow
             THEN paragraphBreak + 2
             ELSE IF sentenceBreak > start /\ sentenceBreak > endIndex - SentenceWindow
             THEN sentenceBreak + 2
             ELSE IF wordBreak > start
             THEN wordBreak + 1
             ELSE endIndex
        ELSE endIndex

\* The start index of the next chunk (lines 190-195).
NextStartNoProgress(endIndex, ov) == endIndex - ov
NextStartSkip(endIndex, ov) ==
    LET s == endIndex - ov
    IN  IF s <= 0 \/ endIndex = s THEN endIndex + 1 ELSE s
NextStart(endIndex, ov) ==
    LET s == endIndex - ov
    IN  IF s <= 0 \/ endIndex = s THEN endIndex ELSE s

InitChunk ==
    /\ text \in Texts
    /\ chunkSize \in 1..MaxChunkSize
    /\ overlap \in 0..MaxOverlap
    /\ startIndex = 0
    /\ chunks = <<>>
    /\ cuts = <<>>
    /\ cpc = "call"
    /\ IngestIdle
    /\ FindIdle
    /\ ScrapeIdle
    /\ PromptIdle
    /\ now = 0
    /\ estimatedTokens = 0

\* Lines 158-163: the early return, or entry into the loop.
SplitEnter ==
    /\ cpc = "call"
    /\ IF ReturnsWhole(text, chunkSize)
       THEN /\ chunks' = <<text>>
            /\ cuts' = <<<<0, Len(text)>>>>
            /\ cpc' = "done"
       ELSE /\ cpc' = "loop"
            /\ UNCHANGED <<chunks, cuts>>
    /\ UNCHANGED <<text, chunkSize, overlap, startIndex, ingestVars, findVars, now, estimatedTokens, scrapeVars, promptVars>>

\* Lines 165-196: one iteration of the while loop.  The loop's next state is
\* a function of startIndex alone and startIndex ranges over 0..Len(text)-1
\* inside the loop, so a call that returns runs at most Len(text) iterations;
\* the model stops a run once it has made one iteration more than that.
SplitStep ==
    /\ cpc = "loop"
    /\ startIndex < Len(text)
    /\ Len(chunks) <= Len(text)
    /\ LET endIndex == ChunkEnd(text, startIndex, chunkSize)
       IN  /\ chunks' = Append(chunks, slice(text, startIndex, endIndex))
           /\ cuts' = Append(cuts, <<startIndex, endIndex>>)
           /\ startIndex' = NextStart(endIndex, overlap)
    /\ UNCHANGED <<text, chunkSize, overlap, cpc, ingestVars, findVars, now, estimatedTokens, scrapeVars, promptVars>>

\* Line 198: the loop condition fails, chunks is returned.
SplitReturn ==
    /\ cpc = "loop"
    /\ ~(startIndex < Len(text))
    /\ cpc' = "done"
    /\ UNCHANGED <<text, chunkSize, overlap, startIndex, chunks, cuts, ingestVars, findVars, now, estimatedTokens, scrapeVars, promptVars>>

NextChunk == SplitEnter \/ SplitStep \/ SplitReturn

SpecChunk == InitChunk /\ [][NextChunk]_vars

\* ------------------------------------------- token estimate and titles
\* Math.ceil(n / d) for n >= 0, d > 0.
CeilDiv(n, d) == IF n % d = 0 THEN n \div d ELSE n \div d + 1
FloorDiv(n, d) == n \div d

\* estimateTokenCount(text), lines 207-211.  "!text" holds for "", null and
\* undefined alike: all three are the empty sequence here.
estimateTokenCountFloor(t) ==
    IF t = <<>> THEN 0 ELSE FloorDiv(Len(t), CharsPerToken)
estimateTokenCount(t) ==
    IF t = <<>> THEN 0 ELSE CeilDiv(Len(t), CharsPerToken)

\* "estimatedTokens > MAX_TOKENS"
OverChunkSize(tokens) == tokens * CharsPerToken > DefaultChunkSize
OverBudgetInclusive(tokens) == tokens >= MAX_TOKENS
OverBudgetOffByOne(tokens) == tokens > MAX_TOKENS + 1
OverBudget(tokens) == tokens > MAX_TOKENS

\* The decimal digits of n >= 0, as in a template literal.
RECURSIVE Decimal(_)
Decimal(n) ==
    IF n < 10 THEN <<DIGITS[n + 1]>>
    ELSE Decimal(n \div 10) \o <<DIGITS[(n % 10) + 1]>>

\* "chunk.split("\n")[0]?.trim() || """
FirstLine(chunk) ==
    LET breaks == {i \in 1..Len(chunk) : chunk[i] = "\n"}
    IN  IF breaks = {} THEN trim(chunk)
        ELSE trim(SubSeq(chunk, 1, (CHOOSE i \in breaks : \A j \in breaks : i <= j) - 1))
ELLIPSIS == <<".", ".", ".">>
CHUNK_OPEN == <<" ", "(", "c", "h", "u", "n", "k", " ">>
CHUNK_CLOSE == <<")", " ", "-", " ">>

\* createChunkTitle(chunk, index, filename), lines 220-231.
createChunkTitle(chunk, index, filename) ==
    LET firstLine == FirstLine(chunk)
        preview == IF Len(firstLine) > PreviewLength
                   THEN SubSeq(firstLine, 1, PreviewLength) \o ELLIPSIS
                   ELSE firstLine
    IN  filename \o CHUNK_OPEN \o Decimal(index + 1) \o CHUNK_CLOSE \o preview

\* "textChunks.length > 1 ? createChunkTitle(chunk, index, file.filename)
\* : file.filename" (upload.ts lines 457-460, scrape.ts lines 299-302).
chunkTitleAlways(textChunks, index, filename) ==
    createChunkTitle(textChunks[index + 1], index, filename)
chunkTitle(textChunks, index, filename) ==
    IF Len(textChunks) > 1
    THEN createChunkTitle(textChunks[index + 1], index, filename)
    ELSE filename

\* The name of the ingested file, or the title of the scraped page.
FILENAME == <<"d", "o", "c">>

\* A text without paragraph, sentence or word breaks.
RECURSIVE NoBreakText(_)
NoBreakText(n) ==
    IF n = 0 THEN <<>>
    ELSE LET half == NoBreakText(n \div 2)
         IN  IF n % 2 = 0 THEN half \o half ELSE Append(half \o half, "a")
\* The lengths of the texts ingested: the shortest ones, the longest
\* break-free documents, and those around the token ceiling.
PipelineLengths ==
    (0..(CharsPerToken + 1))
    \cup ((ScenarioChars - CharsPerToken)..ScenarioChars)
    \cup {MAX_TOKENS * CharsPerToken + d : d \in {-1, 0, 1, 2}}

\* A text over the token ceiling with a paragraph break that starts at the
\* first target boundary of the default chunker.
BoundaryBreakText ==
    NoBreakText(DefaultChunkSize) \o PARAGRAPH
        \o NoBreakText(MAX_TOKENS * CharsPerToken - DefaultChunkSize)

\* The text of one document on its way through a handler: kind["A"] is
\* "file" or "url" for a text that a handler extracted, and "none" for a
\* direct call of splitTextIntoChunks(text).  The upload handler has
\* turned away an empty text before it estimates tokens.
InitPipeline ==
    /\ text \in {NoBreakText(n) : n \in PipelineLengths} \cup {BoundaryBreakText}
    /\ chunkSize = DefaultChunkSize
    /\ overlap = DefaultOverlap
    /\ startIndex = 0
    /\ chunks = <<>>
    /\ cuts = <<>>
    /\ \E k \in {"none", "file", "url"} :
          /\ kind = [c \in Calls |-> IF c = "A" THEN k ELSE "none"]
          /\ cpc = IF k = "none" THEN "call" ELSE "ingest"
          /\ k = "file" => ~IsEmptyContent(Doc(text, 1))
    /\ db = <<>>
    /\ HandlersIdle
    /\ FindIdle
    /\ ScrapeIdle
    /\ PromptIdle
    /\ now = 0
    /\ estimatedTokens = 0

\* upload.ts lines 439-448, scrape.ts lines 282-289: the token estimate and
\* "estimatedTokens > MAX_TOKENS ? splitTextIntoChunks(content) : [content]".
EstimateAndChunk ==
    /\ cpc = "ingest"
    /\ estimatedTokens' = estimateTokenCount(text)
    /\ IF OverBudget(estimateTokenCount(text))
       THEN /\ cpc' = "call"
            /\ chunkSize' = DefaultChunkSize
            /\ overlap' = DefaultOverlap
            /\ UNCHANGED <<chunks, cuts>>
       ELSE /\ chunks' = <<text>>
            /\ cuts' = <<<<0, Len(text)>>>>
            /\ cpc' = "done"
            /\ UNCHANGED <<chunkSize, overlap>>
    /\ chunkerCalled' = [chunkerCalled EXCEPT !["A"] = OverBudget(estimateTokenCount(text))]
    /\ UNCHANGED <<text, startIndex, db, hpc, kind, content, results, contextItems,
                   embedRequested, report, findVars, now, scrapeVars, promptVars>>

NextPipeline == EstimateAndChunk \/ SplitEnter \/ SplitStep \/ SplitReturn

SpecPipeline == InitPipeline /\ [][NextPipeline]_vars

\* ------------------------------------------ the chunker's break windows
\* Texts long enough for the 200- and 100-character windows to decide:
\* letters, with at most one paragraph break, one sentence break and one
\* space, each at a chosen distance from the first target boundary.
NoBreak == -1
BreakOffsets ==
    {-1, 0, 1,
     SentenceWindow - 1, SentenceWindow, SentenceWindow + 1,
     ParagraphWindow - 1, ParagraphWindow, ParagraphWindow + 1,
     WindowChunkSize - 1, WindowChunkSize}
BreakPlaces == {NoBreak} \cup {WindowChunkSize - d : d \in BreakOffsets}
BreakText(p, s, w) ==
    [k \in 1..(WindowChunkSize + MaxTextLen) |->
        IF p # NoBreak /\ k - 1 \in {p, p + 1} THEN "\n"
        ELSE IF s # NoBreak /\ k - 1 = s THEN "."
        ELSE IF s # NoBreak /\ k - 1 = s + 1 THEN " "
        ELSE IF w # NoBreak /\ k - 1 = w THEN " "
        ELSE "a"]

\* A direct call splitTextIntoChunks(text, chunkSize, overlap).
InitWindow ==
    /\ \E p \in BreakPlaces, s \in BreakPlaces, w \in BreakPlaces :
          text = BreakText(p, s, w)
    /\ chunkSize = WindowChunkSize
    /\ overlap \in {0, 1}
    /\ startIndex = 0
    /\ chunks = <<>>
    /\ cuts = <<>>
    /\ cpc = "call"
    /\ IngestIdle
    /\ FindIdle
    /\ ScrapeIdle
    /\ PromptIdle
    /\ now = 0
    /\ estimatedTokens = 0

SpecWindow == InitWindow /\ [][NextChunk]_vars

\* ------------------------------------------------------- ingestion calls
\* The handlers run on one event loop: a step below is the code between two
\* suspension points (awaits) of one call.

\* The chunks are mapped to callbacks, each of which runs up to its
\* "await embeddings.embedQuery(chunk)".
BeginChunks(c, doc) ==
    /\ content' = [content EXCEPT ![c] = doc]
    /\ chunkerCalled' = [chunkerCalled EXCEPT ![c] = UsesChunker(doc)]
    /\ results' = [results EXCEPT ![c] = [k \in 1..Len(TextChunks(doc)) |-> "pending"]]
    /\ embedRequested' = [embedRequested EXCEPT ![c] = 0..(Len(TextChunks(doc)) - 1)]
    /\ hpc' = [hpc EXCEPT ![c] = "embedding"]

\* upload.ts lines 382-434: the text of the file is empty or an error
\* message of the PDF reader; the file's report carries the error.
UploadRejected(doc) ==
    \/ IsEmptyContent(doc)
    \/ startsWith(doc.chars, ERR_PARSE_PDF)
    \/ startsWith(doc.chars, ERR_READ_PDF)

\* upload.ts lines 377-470: a file of the request, up to its first await of
\* an embedding.
UploadStart(c) ==
    /\ hpc[c] = "idle"
    /\ \E file \in Files :
        LET doc == readFileContent(file)
        IN  /\ kind' = [kind EXCEPT ![c] = "file"]
            /\ IF UploadRejected(doc)
               THEN /\ content' = [content EXCEPT ![c] = doc]
                    /\ report' = [report EXCEPT ![c] =
                          ErrorReport(IF ~IsEmptyContent(doc) THEN "sentinel"
                                      ELSE IF file.mime = "pdf" THEN "pdfNoText"
                                      ELSE "noText")]
                    /\ hpc' = [hpc EXCEPT ![c] = "done"]
                    /\ UNCHANGED <<results, embedRequested, chunkerCalled>>
               ELSE /\ BeginChunks(c, doc)
                    /\ UNCHANGED report
    /\ UNCHANGED <<db, contextItems, chunkVars, findVars, now, estimatedTokens, scrapeVars, promptVars>>

\* upload.ts lines 470-495: the embedding of chunk index arrives and the
\* context item is appended to the collection.
UploadChunkStored(c, index) ==
    /\ hpc[c] = "embedding" /\ kind[c] = "file"
    /\ index + 1 \in DOMAIN results[c]
    /\ results[c][index + 1] = "pending"
    /\ db' = StoreAppend(db,
                <<ContextItem(c, "file", index, TextChunks(content[c])[index + 1])>>)
    /\ results' = [results EXCEPT ![c][index + 1] = "ok"]
    /\ UNCHANGED <<hpc, kind, content, contextItems, embedRequested,
                   chunkerCalled, report, chunkVars, findVars, now, estimatedTokens, scrapeVars, promptVars>>

\* upload.ts lines 470, 496-505: embedQuery rejects; the chunk's catch
\* returns an error entry.
UploadChunkEmbedFailed(c, index) ==
    /\ hpc[c] = "embedding" /\ kind[c] = "file"
    /\ index + 1 \in DOMAIN results[c]
    /\ results[c][index + 1] = "pending"
    /\ results' = [results EXCEPT ![c][index + 1] = "embedError"]
    /\ UNCHANGED <<db, hpc, kind, content, contextItems, embedRequested,
                   chunkerCalled, report, chunkVars, findVars, now, estimatedTokens, scrapeVars, promptVars>>

\* upload.ts lines 486-488, 496-505: db.set throws inside the chunk's try;
\* the chunk's catch returns an error entry.  The item was pushed onto the
\* array db.get returned: the collection in memory holds it when that array
\* is the store's own, and does not when it is a copy.
UploadChunkStoreFailed(c, index) ==
    /\ hpc[c] = "embedding" /\ kind[c] = "file"
    /\ index + 1 \in DOMAIN results[c]
    /\ results[c][index + 1] = "pending"
    /\ \E kept \in BOOLEAN :
        db' = IF kept
              THEN StoreAppend(db,
                     <<ContextItem(c, "file", index, TextChunks(content[c])[index + 1])>>)
              ELSE db
    /\ results' = [results EXCEPT ![c][index + 1] = "storeError"]
    /\ UNCHANGED <<hpc, kind, content, contextItems, embedRequested,
                   chunkerCalled, report, chunkVars, findVars, now, estimatedTokens, scrapeVars, promptVars>>

\* upload.ts lines 507-528: Promise.all resolves; the file's report.
UploadFinish(c) ==
    /\ hpc[c] = "embedding" /\ kind[c] = "file"
    /\ \A k \in DOMAIN results[c] : results[c][k] # "pending"
    /\ report' = [report EXCEPT ![c] = FileReport(results[c])]
    /\ hpc' = [hpc EXCEPT ![c] = "done"]
    /\ UNCHANGED <<db, kind, content, results, contextItems, embedRequested,
                   chunkerCalled, chunkVars, findVars, now, estimatedTokens, scrapeVars, promptVars>>

\* scrape.ts lines 157-312: the page is scraped (an exception ends the
\* request with status 500), then chunked, up to the first await of an
\* embedding.
ScrapeStart(c) ==
    /\ hpc[c] = "idle"
    /\ \E page \in Pages :
        /\ kind' = [kind EXCEPT ![c] = "url"]
        /\ IF page.outcome = "throw"
           THEN /\ report' = [report EXCEPT ![c] = ErrorReport("scrapeError")]
                /\ hpc' = [hpc EXCEPT ![c] = "done"]
                /\ UNCHANGED <<content, results, embedRequested, chunkerCalled>>
           ELSE /\ BeginChunks(c, scrapeContent(page))
                /\ UNCHANGED report
    /\ UNCHANGED <<db, contextItems, chunkVars, findVars, now, estimatedTokens, scrapeVars, promptVars>>

\* scrape.ts lines 312-334: the embedding of chunk index arrives and the
\* context item is pushed onto the request's contextItems.
ScrapeChunkEmbedded(c, index) ==
    /\ hpc[c] = "embedding" /\ kind[c] = "url"
    /\ index + 1 \in DOMAIN results[c]
    /\ results[c][index + 1] = "pending"
    /\ contextItems' = [contextItems EXCEPT ![c] = Append(@,
            ContextItem(c, "url", index, TextChunks(content[c])[index + 1]))]
    /\ results' = [results EXCEPT ![c][index + 1] = "ok"]
    /\ UNCHANGED <<db, hpc, kind, content, embedRequested, chunkerCalled,
                   report, chunkVars, findVars, now, estimatedTokens, scrapeVars, promptVars>>

\* scrape.ts lines 312, 335-343: embedQuery rejects.
ScrapeChunkEmbedFailed(c, index) ==
    /\ hpc[c] = "embedding" /\ kind[c] = "url"
    /\ index + 1 \in DOMAIN results[c]
    /\ results[c][index + 1] = "pending"
    /\ results' = [results EXCEPT ![c][index + 1] = "embedError"]
    /\ UNCHANGED <<db, hpc, kind, content, contextItems, embedRequested,
                   chunkerCalled, report, chunkVars, findVars, now, estimatedTokens, scrapeVars, promptVars>>

\* scrape.ts lines 347-378: Promise.all resolves; the items are appended to
\* the collection and the response is sent.
ScrapeStore(c) ==
    /\ hpc[c] = "embedding" /\ kind[c] = "url"
    /\ \A k \in DOMAIN results[c] : results[c][k] # "pending"
    /\ db' = StoreAppend(db, contextItems[c])
    /\ report' = [report EXCEPT ![c] = ScrapeReport(results[c], contextItems[c])]
    /\ hpc' = [hpc EXCEPT ![c] = "done"]
    /\ UNCHANGED <<kind, content, results, contextItems, embedRequested,
                   chunkerCalled, chunkVars, findVars, now, estimatedTokens, scrapeVars, promptVars>>

\* scrape.ts lines 357-362, 379-385: db.set throws; the handler's catch
\* answers with status 500 and the error.
ScrapeStoreFailed(c) ==
    /\ hpc[c] = "embedding" /\ kind[c] = "url"
    /\ \A k \in DOMAIN results[c] : results[c][k] # "pending"
    /\ \E kept \in BOOLEAN :
        db' = IF kept THEN StoreAppend(db, contextItems[c]) ELSE db
    /\ report' = [report EXCEPT ![c] = ErrorReport("storeError")]
    /\ hpc' = [hpc EXCEPT ![c] = "done"]
    /\ UNCHANGED <<kind, content, results, contextItems, embedRequested,
                   chunkerCalled, chunkVars, findVars, now, estimatedTokens, scrapeVars, promptVars>>

\* ReviewAnalyzer.tsx line 209: a review is analysed while contexts are
\* ingested; db.findSimilarContexts(reviewEmbedding, 5) runs without a
\* suspension point and its result goes into the handler's prompt.
AnalyzeRetrieve ==
    /\ \E query \in Queries : db' = ContextsAfterFind(db, query)
    /\ UNCHANGED <<hpc, kind, content, results, contextItems, embedRequested,
                   chunkerCalled, report, chunkVars, findVars, now,
                   estimatedTokens, scrapeVars, promptVars>>

Init ==
    /\ IngestIdle
    /\ FindIdle
    /\ ScrapeIdle
    /\ PromptIdle
    /\ now = 0
    /\ estimatedTokens = 0
    /\ text = <<>>
    /\ chunkSize = DefaultChunkSize
    /\ overlap = DefaultOverlap
    /\ startIndex = 0
    /\ chunks = <<>>
    /\ cuts = <<>>
    /\ cpc = "call"

Next ==
    \/ AnalyzeRetrieve
    \/ \E c \in Calls :
        \/ UploadStart(c)
        \/ ScrapeStart(c)
        \/ UploadFinish(c)
        \/ ScrapeStore(c)
        \/ ScrapeStoreFailed(c)
        \/ \E index \in 0..(MaxChunks - 1) :
              \/ UploadChunkStored(c, index)
              \/ UploadChunkEmbedFailed(c, index)
              \/ UploadChunkStoreFailed(c, index)
              \/ ScrapeChunkEmbedded(c, index)
              \/ ScrapeChunkEmbedFailed(c, index)

Spec == Init /\ [][Next]_vars

\* Every handler step that is enabled is eventually run: the event loop
\* runs each settled promise's continuation, and every embedding request
\* settles.
SpecFair == Spec /\ WF_vars(Next)

\* ------------------------------------------ retrieval on a given store
\* The persisted collection holds up to MaxStore records; the caller passes
\* a query embedding and a limit.
InitFind ==
    /\ db \in Stores
    /\ kind = [c \in Calls |-> "none"]
    /\ HandlersIdle
    /\ queryEmbedding \in Queries
    /\ limit \in Limits
    /\ withSimilarity = <<>>
    /\ found = <<>>
    /\ fpc = "called"
    /\ ncalls = 0
    /\ ScrapeIdle
    /\ PromptIdle
    /\ now = 0
    /\ estimatedTokens = 0
    /\ text = <<>>
    /\ chunkSize = DefaultChunkSize
    /\ overlap = DefaultOverlap
    /\ startIndex = 0
    /\ chunks = <<>>
    /\ cuts = <<>>
    /\ cpc = "call"

\* part_002 lines 86-111: one call of findSimilarContexts; it has no
\* suspension point.
FindSimilar ==
    /\ fpc = "called"
    /\ LET r == findSimilarContexts(Collection(db), queryEmbedding, limit)
       IN  /\ found' = r.value
           /\ fpc' = IF r.threw THEN "thrown" ELSE "returned"
    /\ withSimilarity' = MapScores(db, queryEmbedding)
    /\ db' = ContextsAfterFind(db, queryEmbedding)
    /\ ncalls' = ncalls + 1
    /\ UNCHANGED <<queryEmbedding, limit, hpc, kind, content, results,
                   contextItems, embedRequested, chunkerCalled, report,
                   chunkVars, now, estimatedTokens, scrapeVars, promptVars>>

\* The caller repeats the call with the same query and limit.
FindRepeat ==
    /\ fpc \in {"returned", "thrown"}
    /\ ncalls < MaxFindCalls
    /\ fpc' = "called"
    /\ UNCHANGED <<queryEmbedding, limit, withSimilarity, found, ncalls,
                   ingestVars, chunkVars, now, estimatedTokens, scrapeVars, promptVars>>

NextFind == FindSimilar \/ FindRepeat

SpecFind == InitFind /\ [][NextFind]_vars

\* ------------------------------------------------------- record ids
\* "Math.random().toString(36).substring(2, 9)": up to seven digits of
\* base 36.
RandomSuffixes == {"k3x9q0a", "9f"}

\* upload.ts lines 474-476:
\* `${Date.now().toString()}-chunk-${index}-${Math.random()...}`
FileChunkId(time, index, random) ==
    Decimal(time) \o <<"-chunk-">> \o Decimal(index) \o <<"-", random>>
\* scrape.ts lines 316-318:
\* `${Date.now().toString()}-url-chunk-${index}-${Math.random()...}`
UrlChunkId(time, index, random) ==
    Decimal(time) \o <<"-url-chunk-">> \o Decimal(index) \o <<"-", random>>

\* The context item of chunk index of call c, with its id.
IdentifiedItem(c, source, index, id) ==
    [call |-> c, source |-> source, chunkIndex |-> index, id |-> id]

\* Date.now() moves on by a millisecond.
Tick ==
    /\ now < MaxNow
    /\ now' = now + 1
    /\ UNCHANGED <<ingestVars, chunkVars, findVars, estimatedTokens, scrapeVars, promptVars>>

\* upload.ts lines 473-488: the embedding of chunk index of a file has
\* arrived; its context item is built and appended to the collection.
FileItemCreated(c, index) ==
    /\ contextItems[c] = <<>>
    /\ \A k \in DOMAIN db :
          db[k].call = c => (db[k].source = "file" /\ db[k].chunkIndex # index)
    /\ \E random \in RandomSuffixes :
          db' = StoreAppend(db,
                  <<IdentifiedItem(c, "file", index, FileChunkId(now, index, random))>>)
    /\ UNCHANGED <<hpc, kind, content, results, contextItems, embedRequested,
                   chunkerCalled, report, chunkVars, findVars, now,
                   estimatedTokens, scrapeVars, promptVars>>

\* scrape.ts lines 315-327: the embedding of chunk index of a page has
\* arrived; its context item is built and pushed onto contextItems.
UrlItemCreated(c, index) ==
    /\ \A k \in DOMAIN db : db[k].call # c
    /\ \A k \in DOMAIN contextItems[c] : contextItems[c][k].chunkIndex # index
    /\ \E random \in RandomSuffixes :
          contextItems' = [contextItems EXCEPT ![c] = Append(@,
              IdentifiedItem(c, "url", index, UrlChunkId(now, index, random)))]
    /\ UNCHANGED <<db, hpc, kind, content, results, embedRequested,
                   chunkerCalled, report, chunkVars, findVars, now,
                   estimatedTokens, scrapeVars, promptVars>>

\* scrape.ts lines 357-362: the page's items are appended to the collection.
UrlItemsStored(c) ==
    /\ contextItems[c] # <<>>
    /\ \A k \in DOMAIN db : db[k].call # c
    /\ db' = StoreAppend(db, contextItems[c])
    /\ UNCHANGED <<hpc, kind, content, results, contextItems, embedRequested,
                   chunkerCalled, report, chunkVars, findVars, now,
                   estimatedTokens, scrapeVars, promptVars>>

NextIds ==
    \/ Tick
    \/ \E c \in Calls :
          \/ UrlItemsStored(c)
          \/ \E index \in 0..(MaxChunks - 1) :
                \/ FileItemCreated(c, index)
                \/ UrlItemCreated(c, index)

SpecIds == Init /\ [][NextIds]_vars

\* ------------------------------------------------------- record titles
\* The chunks of a document as the handlers title them: first lines longer
\* than the preview, exactly as long, short, and empty, with and without
\* surrounding whitespace.
TitledChunks ==
    {<<" ">> \o NoBreakText(PreviewLength + 1) \o <<"\n", "b">>,
     NoBreakText(PreviewLength),
     <<"a", " ", "\n", "b">>,
     <<"\n", "a">>}
\* file.filepath of the upload, url of the scrape request.
ORIGIN == <<"/", "d", "o", "c">>

\* upload.ts lines 473-483, scrape.ts lines 315-324: the context item of
\* chunk index, with its title and its origin (filepath or url).
TitledItem(c, source, index, textChunks) ==
    [call |-> c, source |-> source, chunkIndex |-> index,
     content |-> textChunks[index + 1],
     title |-> chunkTitle(textChunks, index, FILENAME),
     origin |-> ORIGIN]

\* The text chunks of one document are given; a callback runs per chunk.
InitTitles ==
    /\ chunks \in UNION {[1..n -> TitledChunks] : n \in 1..MaxChunks}
    /\ \E k \in {"file", "url"} :
          kind = [c \in Calls |-> IF c = "A" THEN k ELSE "none"]
    /\ text = <<>>
    /\ chunkSize = DefaultChunkSize
    /\ overlap = DefaultOverlap
    /\ startIndex = 0
    /\ cuts = <<>>
    /\ cpc = "done"
    /\ db = <<>>
    /\ HandlersIdle
    /\ FindIdle
    /\ ScrapeIdle
    /\ PromptIdle
    /\ now = 0
    /\ estimatedTokens = 0

\* upload.ts lines 457-488: the item of chunk index of the file is built
\* and appended to the collection.
FileItemTitled(c, index) ==
    /\ kind[c] = "file"
    /\ index < Len(chunks)
    /\ \A k \in DOMAIN db : db[k].chunkIndex # index
    /\ db' = StoreAppend(db, <<TitledItem(c, "file", index, chunks)>>)
    /\ UNCHANGED <<hpc, kind, content, results, contextItems, embedRequested,
                   chunkerCalled, report, chunkVars, findVars, now,
                   estimatedTokens, scrapeVars, promptVars>>

\* scrape.ts lines 299-327: the item of chunk index of the page is built
\* and pushed onto contextItems.
UrlItemTitled(c, index) ==
    /\ kind[c] = "url"
    /\ index < Len(chunks)
    /\ db = <<>>
    /\ \A k \in DOMAIN contextItems[c] : contextItems[c][k].chunkIndex # index
    /\ contextItems' = [contextItems EXCEPT ![c] =
                           Append(@, TitledItem(c, "url", index, chunks))]
    /\ UNCHANGED <<db, hpc, kind, content, results, embedRequested,
                   chunkerCalled, report, chunkVars, findVars, now,
                   estimatedTokens, scrapeVars, promptVars>>

\* scrape.ts lines 357-362, once every callback has returned.
UrlTitledStored(c) ==
    /\ Len(contextItems[c]) = Len(chunks)
    /\ UrlItemsStored(c)

NextTitles ==
    \/ UrlTitledStored("A")
    \/ \E index \in 0..(MaxChunks - 1) :
          \/ FileItemTitled("A", index)
          \/ UrlItemTitled("A", index)

SpecTitles == InitTitles /\ [][NextTitles]_vars
\* ------------------------------------------------- scraping one URL
\* What a URL serves: how the initial fetch ends ("error": axios rejects,
\* "status": a status other than 200, "empty": 200 with an empty body,
\* "ok"), whether isLikelyCSR holds of the HTML, and the lengths of the text
\* the static and the dynamic extraction give.
Sites ==
    [fetch : {"error", "status", "empty", "ok"},
     csr : BOOLEAN,
     staticLength : {0, MinStaticLength - 1, MinStaticLength},
     dynamicLength : {0, MinStaticLength - 1, MinStaticLength}]

\* "content.length < 500 && scrapingMethod === "static""
NeedsDynamicAnyMethod(length, method) == length < MinStaticLength
NeedsDynamic(length, method) == length < MinStaticLength /\ method = "static"

\* scrape.ts lines 235-257, up to the await of the dynamic fallback: the
\* content of the given length was extracted by the given method.
AfterExtraction(length, method) ==
    IF NeedsDynamic(length, method)
    THEN /\ scrapingMethod' = "dynamic"
         /\ dynamicAttempts' = dynamicAttempts + 1
         /\ spc' = "dynamicFallback"
    ELSE /\ scrapingMethod' = method
         /\ spc' = "scraped"
         /\ UNCHANGED dynamicAttempts

InitScrape ==
    /\ site \in Sites
    /\ spc = "start"
    /\ scrapingMethod = "static"
    /\ scrapedLength = 0
    /\ dynamicAttempts = 0
    /\ kind = [c \in Calls |-> IF c = "A" THEN "url" ELSE "none"]
    /\ db = <<>>
    /\ HandlersIdle
    /\ text = <<>>
    /\ chunkSize = DefaultChunkSize
    /\ overlap = DefaultOverlap
    /\ startIndex = 0
    /\ chunks = <<>>
    /\ cuts = <<>>
    /\ cpc = "done"
    /\ FindIdle
    /\ PromptIdle
    /\ now = 0
    /\ estimatedTokens = 0

\* scrape.ts lines 163-230: the initial fetch has ended; the handler goes
\* on to its next await, of scrapeDynamicContent or of scrapeStaticContent.
ScrapeFetched ==
    /\ spc = "start"
    /\ IF site.fetch # "ok"
       THEN /\ scrapingMethod' = "dynamic"
            /\ dynamicAttempts' = dynamicAttempts + 1
            /\ spc' = "dynamicOnly"
       ELSE IF site.csr
       THEN /\ scrapingMethod' = "dynamic"
            /\ dynamicAttempts' = dynamicAttempts + 1
            /\ spc' = "dynamicCSR"
       ELSE /\ spc' = "static"
            /\ UNCHANGED <<scrapingMethod, dynamicAttempts>>
    /\ UNCHANGED <<site, scrapedLength, chunkVars, ingestVars, findVars, now,
                   estimatedTokens, promptVars>>

\* Lines 185-187, 210-212, 242-244: scrapeDynamicContent resolves.
DynamicResolved ==
    /\ spc \in {"dynamicOnly", "dynamicCSR", "dynamicFallback"}
    /\ scrapedLength' = site.dynamicLength
    /\ IF spc = "dynamicCSR"
       THEN AfterExtraction(site.dynamicLength, scrapingMethod)
       ELSE /\ spc' = "scraped"
            /\ UNCHANGED <<scrapingMethod, dynamicAttempts>>
    /\ UNCHANGED <<site, chunkVars, ingestVars, findVars, now, estimatedTokens,
                   promptVars>>

\* Lines 188-203, 213-223, 245-255, 379-385: scrapeDynamicContent rejects.
\* After a failed fetch the error is thrown on to the handler's catch, which
\* answers 500; after CSR detection the static extraction is awaited; in
\* the fallback the static content is kept.
DynamicRejected ==
    /\ spc \in {"dynamicOnly", "dynamicCSR", "dynamicFallback"}
    /\ CASE spc = "dynamicOnly" ->
                /\ spc' = "failed"
                /\ report' = [report EXCEPT !["A"] = ErrorReport("scrapeError")]
                /\ UNCHANGED scrapingMethod
         [] spc = "dynamicCSR" ->
                /\ spc' = "staticFallback"
                /\ UNCHANGED <<scrapingMethod, report>>
         [] spc = "dynamicFallback" ->
                /\ spc' = "scraped"
                /\ scrapingMethod' = "static (dynamic fallback failed)"
                /\ UNCHANGED report
    /\ UNCHANGED <<site, scrapedLength, dynamicAttempts, db, hpc, kind, content,
                   results, contextItems, embedRequested, chunkerCalled,
                   chunkVars, findVars, now, estimatedTokens, promptVars>>

\* Lines 223-226, 230-232: scrapeStaticContent resolves.
StaticResolved ==
    /\ spc \in {"static", "staticFallback"}
    /\ scrapedLength' = site.staticLength
    /\ AfterExtraction(site.staticLength,
                       IF spc = "staticFallback" THEN "static (fallback)"
                       ELSE scrapingMethod)
    /\ UNCHANGED <<site, chunkVars, ingestVars, findVars, now, estimatedTokens,
                   promptVars>>

\* Lines 223, 230, 379-385: scrapeStaticContent rejects; the handler's
\* catch answers 500.
StaticRejected ==
    /\ spc \in {"static", "staticFallback"}
    /\ spc' = "failed"
    /\ report' = [report EXCEPT !["A"] = ErrorReport("scrapeError")]
    /\ UNCHANGED <<site, scrapingMethod, scrapedLength, dynamicAttempts, db,
                   hpc, kind, content, results, contextItems, embedRequested,
                   chunkerCalled, chunkVars, findVars, now, estimatedTokens,
                   promptVars>>

\* Lines 259-378: the scraped content is embedded and stored, here as one
\* chunk whose embedding arrives.
ScrapedStored ==
    /\ spc = "scraped"
    /\ spc' = "stored"
    /\ LET items == <<ContextItem("A", "url", 0, NoBreakText(scrapedLength))>>
       IN  /\ db' = StoreAppend(db, items)
           /\ report' = [report EXCEPT !["A"] = ScrapeReport(<<"ok">>, items)]
    /\ UNCHANGED <<site, scrapingMethod, scrapedLength, dynamicAttempts, hpc,
                   kind, content, results, contextItems, embedRequested,
                   chunkerCalled, chunkVars, findVars, now, estimatedTokens,
                   promptVars>>

NextScrape ==
    \/ ScrapeFetched
    \/ DynamicResolved
    \/ DynamicRejected
    \/ StaticResolved
    \/ StaticRejected
    \/ ScrapedStored

SpecScrape == InitScrape /\ [][NextScrape]_vars
\* ------------------------------------------- the prompt of an analysis
\* `Review: "${review}"\nRating: ${rating}/5` for a review of the given
\* length and a one-digit rating: its length.
REVIEW_OPEN == <<"R", "e", "v", "i", "e", "w", ":", " ", "\"">>
RATING_OPEN == <<"\"", "\n", "R", "a", "t", "i", "n", "g", ":", " ">>
RATING_CLOSE == <<"/", "5">>
ReviewContextLength(reviewLength) ==
    Len(REVIEW_OPEN) + reviewLength + Len(RATING_OPEN) + 1 + Len(RATING_CLOSE)
ReviewLengths == {1, CharsPerToken}

\* The lengths of the strings of contextualContent, one per record found: a
\* short one, one of half the limit, the longest that fits after the
\* shortest review, and one character more.
ItemLengths ==
    LET room == PromptTokenLimit - HeaderTokens
                    - CeilDiv(ReviewContextLength(1), CharsPerToken)
    IN  {1, CharsPerToken * (PromptTokenLimit \div 2),
         CharsPerToken * room, CharsPerToken * room + 1}

\* A part of the local context: the review lines, the header, the string of
\* the record found at rank id, or the truncation marker.
Part(name, id, length) == [part |-> name, id |-> id, length |-> length]

\* "if (estimatedTokens + itemTokens > 4000)"
ExceedsLimitInclusive(tokens, itemTokens) == tokens + itemTokens >= PromptTokenLimit
ExceedsLimit(tokens, itemTokens) == tokens + itemTokens > PromptTokenLimit

\* ReviewAnalyzer.tsx line 209 has returned: found holds the records, at
\* most RetrievalLimit, in rank order, each with the length of its string
\* in contextualContent (lines 223-234).
InitPrompt ==
    /\ \E n \in 0..RetrievalLimit : \E lengths \in [1..n -> ItemLengths] :
          found = [k \in 1..n |-> [id |-> k, length |-> lengths[k]]]
    /\ limit = RetrievalLimit
    /\ queryEmbedding = <<>>
    /\ withSimilarity = <<>>
    /\ fpc = "returned"
    /\ ncalls = 1
    /\ context = <<>>
    /\ cursor = 0
    /\ ppc = "start"
    /\ text = <<>>
    /\ chunkSize = DefaultChunkSize
    /\ overlap = DefaultOverlap
    /\ startIndex = 0
    /\ chunks = <<>>
    /\ cuts = <<>>
    /\ cpc = "done"
    /\ IngestIdle
    /\ ScrapeIdle
    /\ now = 0
    /\ estimatedTokens = 0

\* Lines 238-246: the review lines, their estimate and, when there are
\* items, the header.
PromptStart ==
    /\ ppc = "start"
    /\ \E reviewLength \in ReviewLengths :
        LET base == ReviewContextLength(reviewLength)
        IN  IF Len(found) > 0
            THEN /\ context' = <<Part("review", 0, base), Part("header", 0, 0)>>
                 /\ estimatedTokens' = CeilDiv(base, CharsPerToken) + HeaderTokens
                 /\ cursor' = 1
                 /\ ppc' = "loop"
            ELSE /\ context' = <<Part("review", 0, base)>>
                 /\ estimatedTokens' = CeilDiv(base, CharsPerToken)
                 /\ cursor' = 0
                 /\ ppc' = "done"
    /\ UNCHANGED <<chunkVars, ingestVars, findVars, now, scrapeVars>>

\* Lines 249-260: one iteration of the loop over contextualContent.
PromptStep ==
    /\ ppc = "loop"
    /\ cursor <= Len(found)
    /\ LET item == found[cursor]
           itemTokens == CeilDiv(item.length, CharsPerToken)
       IN  IF ExceedsLimit(estimatedTokens, itemTokens)
           THEN /\ context' = Append(context, Part("marker", 0, 0))
                /\ ppc' = "done"
                /\ UNCHANGED <<estimatedTokens, cursor>>
           ELSE /\ context' = Append(context, Part("item", item.id, item.length))
                /\ estimatedTokens' = estimatedTokens + itemTokens + SeparatorTokens
                /\ cursor' = cursor + 1
                /\ UNCHANGED ppc
    /\ UNCHANGED <<chunkVars, ingestVars, findVars, now, scrapeVars>>

\* Line 249: contextualContent is exhausted.
PromptEnd ==
    /\ ppc = "loop"
    /\ cursor > Len(found)
    /\ ppc' = "done"
    /\ UNCHANGED <<context, cursor, estimatedTokens, chunkVars, ingestVars,
                   findVars, now, scrapeVars>>

NextPrompt == PromptStart \/ PromptStep \/ PromptEnd

SpecPrompt == InitPrompt /\ [][NextPrompt]_vars
\* ------------------------------------------------ claims on the chunker
\* The text rebuilt from the returned chunks: the first chunk, then every
\* later chunk without the leading characters it shares with its
\* predecessor (from its start index to the predecessor's clamped end).
Shared(i) == Min(cuts[i - 1][2], Len(text)) - cuts[i][1]
DropLeading(s, k) == SubSeq(s, Max(k, 0) + 1, Len(s))
Reconstructed ==
    LET R[i \in 0..Len(chunks)] ==
            IF i = 0 THEN <<>>
            ELSE IF i = 1 THEN chunks[1]
            ELSE R[i - 1] \o DropLeading(chunks[i], Shared(i))
    IN  R[Len(chunks)]

\* C1: splitTextIntoChunks terminates for every text, chunkSize > 0 and
\* overlap >= 0.  A call that returns never revisits a start index, so it
\* makes at most Len(text) iterations: the claim as a bound on the loop.
C1_Terminates == cpc = "loop" => Len(chunks) <= Len(text)

\* C2: every iteration moves startIndex strictly forward, and when
\* endIndex - overlap would not advance past the current start index the
\* next start index is the chunk's end index.
C2_StartAdvances ==
    [][(cpc = "loop" /\ cpc' = "loop" /\ Len(chunks') > Len(chunks)) =>
          /\ startIndex' > startIndex
          /\ (cuts'[Len(cuts')][2] - overlap <= startIndex =>
                 startIndex' = cuts'[Len(cuts')][2])]_vars

C4_SizeBoundOverlap ==
    (cpc = "done" /\ Len(text) > chunkSize) =>
        \A i \in 1..(Len(chunks) - 1) : Len(chunks[i]) <= chunkSize + overlap
\* C4 amended: every chunk pushed, the last included, has length
\* <= chunkSize + 2, hence <= chunkSize + overlap whenever overlap >= 2.
C4_SizeBoundPlus2 ==
    \A i \in 1..Len(chunks) :
        /\ Len(text) > chunkSize => Len(chunks[i]) <= chunkSize + 2
        /\ (Len(text) > chunkSize /\ overlap >= 2) =>
               Len(chunks[i]) <= chunkSize + overlap
C4_Witness ==
    /\ cpc = "done"
    /\ Len(text) > chunkSize
    /\ overlap = 0
    /\ \E i \in 1..(Len(chunks) - 1) : Len(chunks[i]) = chunkSize + 2

\* C5: a text no longer than chunkSize, the empty text included, comes back
\* as the one-element sequence [text].
C5_SingleChunk ==
    (cpc = "done" /\ Len(text) <= chunkSize) => chunks = <<text>>
C5_Witness ==
    /\ cpc = "done"
    /\ Len(text) = chunkSize
    /\ overlap > 0
    /\ chunks = <<text>>


\* ---------------------------------------------- claims on the ingestion
RecordsOf(c) == SelectSeq(db, LAMBDA r : r.call = c)
RecordsOfChunk(c, index) ==
    SelectSeq(db, LAMBDA r : r.call = c /\ r.chunkIndex = index)
ChunkIndices(c) == 0..(Len(results[c]) - 1)
\* The chunk indices of call c whose embedding call failed.
EmbedFailures(c) == {i \in ChunkIndices(c) : results[c][i + 1] = "embedError"}
\* A store write of call c threw.
StoreFailed(c) ==
    \/ \E i \in ChunkIndices(c) : results[c][i + 1] = "storeError"
    \/ report[c].error = "storeError"
\* Call c got as far as embedding its chunks and has returned.
Ingested(c) == hpc[c] = "done" /\ results[c] # <<>>

\* C6: an ingestion call with N chunks whose embedding fails for the chunk
\* indices F requests an embedding for every chunk, reports totalChunks = N,
\* successfulChunks = N - |F| and |F| failed chunks, and leaves exactly one
\* new record per chunk outside F (no store write of the call failing).
C6_PartialFailure ==
    \A c \in Calls :
        (Ingested(c) /\ ~StoreFailed(c)) =>
            LET n == Len(TextChunks(content[c]))
                F == EmbedFailures(c)
            IN  /\ embedRequested[c] = 0..(n - 1)
                /\ report[c].error = ""
                /\ report[c].totalChunks = n
                /\ report[c].successfulChunks = n - Cardinality(F)
                /\ report[c].failedCount = Cardinality(F)
                /\ Len(RecordsOf(c)) = n - Cardinality(F)
                /\ \A i \in 0..(n - 1) :
                      Len(RecordsOfChunk(c, i)) = IF i \in F THEN 0 ELSE 1
C6_Witness ==
    \E c1, c2 \in Calls :
        /\ kind[c1] = "file" /\ kind[c2] = "url"
        /\ \A c \in {c1, c2} :
              /\ Ingested(c) /\ ~StoreFailed(c)
              /\ Len(results[c]) = 2
              /\ EmbedFailures(c) = {1}
              /\ Len(RecordsOf(c)) = 1

\* C7: when the extracted text is empty, either entry point returns a report
\* with an error and zero chunks, requests no embedding, does not call the
\* chunker and appends nothing.
C7_EmptyTextRejected ==
    \A c \in Calls :
        (kind[c] # "none" /\ content[c] = Doc(<<>>, 1)) =>
            /\ hpc[c] = "done" => (report[c].error # "" /\ report[c].totalChunks = 0)
            /\ embedRequested[c] = {}
            /\ ~chunkerCalled[c]
            /\ RecordsOf(c) = <<>>

\* C8: when readFileContent returns one of its failure sentinels (PDF, Excel
\* or CSV), the file's report has an error and zero chunks, no embedding is
\* requested and no record holds the sentinel text.
IsSentinel(t) ==
    \E prefix \in {ERR_PARSE_PDF, ERR_READ_PDF, ERR_EXCEL, ERR_CSV} :
        startsWith(t, prefix)
C8_SentinelRejected ==
    \A c \in Calls :
        (kind[c] = "file" /\ IsSentinel(content[c].chars)) =>
            /\ hpc[c] = "done" => (report[c].error # "" /\ report[c].totalChunks = 0)
            /\ embedRequested[c] = {}
            /\ \A k \in DOMAIN db : ~IsSentinel(db[k].content)

\* C9: a store write failure during an ingestion call ends the call with
\* one call-level error; it is never a failed-chunk entry of a report.
C9_StoreFailureFatal ==
    \A c \in Calls :
        hpc[c] = "done" =>
            /\ StoreFailed(c) => report[c].error = "storeError"
            /\ \A k \in DOMAIN report[c].failedChunks :
                  report[c].failedChunks[k].error # "storeError"

\* The append of chunk index of call c has completed: the chunk's callback
\* returned its success entry (upload), or the request stored its items and
\* answered (scrape).
Appended(c, index) ==
    /\ index \in ChunkIndices(c)
    /\ results[c][index + 1] = "ok"
    /\ kind[c] = "url" => (hpc[c] = "done" /\ report[c].error = "")
\* A completed append whose record is no longer in the collection.
LostUpdate ==
    \E c \in Calls : \E index \in 0..(MaxChunks - 1) :
        Appended(c, index) /\ Len(RecordsOfChunk(c, index)) = 0

\* Call B completed an append between two completed appends of call A.
WritesInterleave ==
    /\ Len(db) >= 3
    /\ db[1].call = "A" /\ db[2].call = "B" /\ db[3].call = "A"
    /\ Appended("A", db[1].chunkIndex)
    /\ Appended("B", db[2].chunkIndex)
    /\ Appended("A", db[3].chunkIndex)
FindDone == fpc \in {"returned", "thrown"}
\* The positions of the records with a non-empty embedding, and of those
\* among them whose embedding has another length than the query.
QualifyingRecords == {k \in DOMAIN db : db[k].embedding # <<>>}
Mismatched ==
    {k \in QualifyingRecords : Len(db[k].embedding) # Len(queryEmbedding)}
SimilarityOf(k) == cosineSimilarity(queryEmbedding, db[k].embedding)
FoundIds == {found[i].id : i \in DOMAIN found}
Tied(x, y) == ~Less(x, y) /\ ~Less(y, x)
AllZero(v) == \A i \in DOMAIN v : v[i] = 0

\* C11: a findSimilarContexts call that returns gives at most limit
\* records, each a scored copy of a qualifying record of the store, in
\* descending order of similarity, none with a lower similarity than a
\* qualifying record that was left out.
C11_TopRanked ==
    fpc = "returned" =>
        /\ Len(found) <= limit
        /\ \A i \in DOMAIN found :
              /\ found[i].id \in QualifyingRecords
              /\ found[i].embedding = db[found[i].id].embedding
              /\ found[i].similarity = SimilarityOf(found[i].id)
        /\ \A i, j \in DOMAIN found :
              i < j => ~Less(found[i].similarity, found[j].similarity)
        /\ \A i \in DOMAIN found : \A k \in QualifyingRecords \ FoundIds :
              ~Less(found[i].similarity, SimilarityOf(k))
C11_Witness ==
    /\ fpc = "returned"
    /\ Len(db) = 3 /\ limit = 2 /\ Len(found) = 2
    /\ Less(found[2].similarity, found[1].similarity)
    /\ \E k \in QualifyingRecords \ FoundIds :
          Less(SimilarityOf(k), found[2].similarity)
    /\ found[1].id > found[2].id

\* C12: a stored embedding of another length than the query takes only its
\* own record out of the ranking: the call returns, and returns the ranking
\* of the other qualifying records.
C12_MismatchExcluded ==
    (FindDone /\ Mismatched # {}) =>
        /\ fpc = "returned"
        /\ FoundIds \cap Mismatched = {}
        /\ Len(found) = Min(limit, Cardinality(QualifyingRecords \ Mismatched))

\* C13: cosineSimilarity of two vectors of equal length is 0, and no
\* exception, when all components of either vector are zero.
C13_ZeroNorm ==
    \A k \in DOMAIN withSimilarity :
        LET e == withSimilarity[k].embedding
        IN  (Len(e) = Len(queryEmbedding) /\ (AllZero(e) \/ AllZero(queryEmbedding)))
                => withSimilarity[k].similarity = Zero
C13_Witness ==
    /\ fpc = "returned"
    /\ ~AllZero(queryEmbedding)
    /\ \E k \in DOMAIN withSimilarity :
          /\ AllZero(withSimilarity[k].embedding)
          /\ withSimilarity[k].similarity = Zero
    /\ \E k \in DOMAIN withSimilarity : withSimilarity[k].similarity.num # 0

\* C14: a repeated findSimilarContexts call on the same store and query
\* returns the same sequence as the call before it, and records of equal
\* similarity come in store order, those returned before those left out.
TiesInStoreOrder ==
    fpc = "returned" =>
        /\ \A i, j \in DOMAIN found :
              (i < j /\ Tied(found[i].similarity, found[j].similarity))
                  => found[i].id < found[j].id
        /\ \A i \in DOMAIN found : \A k \in QualifyingRecords \ FoundIds :
              Tied(found[i].similarity, SimilarityOf(k)) => found[i].id < k
C15_EmptyAndFew ==
    /\ findSimilarContexts(Absent, queryEmbedding, limit)
          = [threw |-> FALSE, value |-> <<>>]
    /\ (FindDone /\ db = <<>>) => (fpc = "returned" /\ found = <<>>)
    /\ (FindDone /\ Cardinality(QualifyingRecords) < limit /\ Mismatched = {}) =>
          /\ fpc = "returned"
          /\ Len(found) = Cardinality(QualifyingRecords)
          /\ FoundIds = QualifyingRecords
C15_Witness ==
    /\ fpc = "returned"
    /\ Len(db) = 3
    /\ Cardinality(QualifyingRecords) = 2
    /\ limit = 3
    /\ Len(found) = 2

\* C18: findSimilarContexts leaves the collection as it was and attaches
\* the similarity to the copies it returns: no record of the store has a
\* similarity field.
NoSimilarityStored ==
    /\ \A k \in DOMAIN db : "similarity" \notin DOMAIN db[k]
    /\ \A i \in DOMAIN found : "similarity" \in DOMAIN found[i]
C18_ScoreOnCopies ==
    /\ []NoSimilarityStored
    /\ [][db' = db]_vars
C18_Witness ==
    /\ fpc = "returned"
    /\ ncalls = 2
    /\ found # <<>>
    /\ found[1].similarity.num # 0
    /\ "similarity" \notin DOMAIN db[found[1].id]

\* ---------------------------------------------- claims on the records
\* C16: no two records of the collection have the same id.
C16_UniqueIds ==
    \A i, j \in DOMAIN db : i # j => db[i].id # db[j].id

\* C17: the collection only grows at its end: every step of an ingestion
\* call or of a retrieval leaves the records it found, in their order and
\* with all their fields, as a prefix of the collection.
C17_AppendOnly ==
    [][/\ Len(db') >= Len(db)
       /\ SubSeq(db', 1, Len(db)) = db]_vars
C17_Witness ==
    /\ Len(db) >= 3
    /\ db[1].call = "B" /\ db[2].call = "A" /\ db[3].call = "B"
    /\ kind["A"] = "url" /\ kind["B"] = "file"
    /\ hpc["A"] = "done" /\ hpc["B"] = "done"

\* ------------------------------------- claims on estimate and pipeline
Ingesting == kind["A"] # "none"
BreakFree == text = NoBreakText(Len(text))
Sizes == [i \in 1..Len(chunks) |-> Len(chunks[i])]
\* The title of chunk i has the form "<name> (chunk i) - <preview>", the
\* preview being the first PreviewLength characters of the chunk and "...".
TitleHasForm(i) ==
    chunkTitle(chunks, i - 1, FILENAME)
        = FILENAME \o CHUNK_OPEN \o Decimal(i) \o CHUNK_CLOSE
            \o SubSeq(chunks[i], 1, PreviewLength) \o ELLIPSIS

C20_CeilQuarter ==
    (Ingesting /\ cpc # "ingest") =>
        /\ estimatedTokens \in Nat
        /\ CharsPerToken * estimatedTokens >= Len(text)
        /\ CharsPerToken * (estimatedTokens - 1) < Len(text)
        /\ text = <<>> => estimatedTokens = 0
C20_Witness ==
    /\ kind["A"] = "url"
    /\ cpc = "done"
    /\ Len(text) > ScenarioChars - CharsPerToken
    /\ Len(text) % CharsPerToken = 1
    /\ estimatedTokens = (Len(text) \div CharsPerToken) + 1

\* ------------------------------------------- claims on overlap and cuts
\* The pair of chunk i and its successor: the earlier chunk's end index as
\* computed (it may lie beyond the text) and the later chunk's start index.
Forced(i) == cuts[i][2] - overlap <= 0 \/ overlap = 0
LastChars(s, k) == SubSeq(s, Len(s) - k + 1, Len(s))
BeginsWithOverlap(i) ==
    /\ Len(chunks[i]) >= overlap
    /\ Len(chunks[i + 1]) >= overlap
    /\ SubSeq(chunks[i + 1], 1, overlap) = LastChars(chunks[i], overlap)

\* C21 as stated: for consecutive chunks the later one starts at the earlier
\* one's end index minus overlap and so begins with the last overlap
\* characters of the earlier chunk, except under forced progress, where it
\* starts at the earlier chunk's end index.
C21_OverlapShared ==
    \A i \in 1..(Len(chunks) - 1) :
        IF Forced(i)
        THEN cuts[i + 1][1] = cuts[i][2]
        ELSE cuts[i + 1][1] = cuts[i][2] - overlap /\ BeginsWithOverlap(i)
\* C21 amended: the index rule holds for every pair, with the end index as
\* computed; the later chunk begins with the last overlap characters of
\* the earlier one whenever that end index lies within the text and both
\* chunks have at least overlap characters.  In every case the later chunk
\* starts inside the text at the index the rule gives.
C21_OverlapIndices ==
    \A i \in 1..(Len(chunks) - 1) :
        /\ IF Forced(i)
           THEN cuts[i + 1][1] = cuts[i][2]
           ELSE cuts[i + 1][1] = cuts[i][2] - overlap
        /\ cuts[i + 1][1] < Len(text)
        /\ (/\ ~Forced(i)
            /\ cuts[i][2] <= Len(text)
            /\ cuts[i][2] - cuts[i][1] >= overlap
            /\ Len(chunks[i + 1]) >= overlap) => BeginsWithOverlap(i)
C21_Witness ==
    /\ cpc = "done"
    /\ Len(chunks) >= 3
    /\ overlap = 2
    /\ ~Forced(1) /\ BeginsWithOverlap(1)
    /\ chunks[2][1] # chunks[2][2]
    /\ cuts[2][1] = cuts[1][2] - overlap

\* The cut the priority order prescribes for the chunk that starts at
\* start, with the breaks looked for at the indices up to upTo.
BreakIndices(t, search) ==
    {i \in 0..(Len(t) - Len(search)) : SubSeq(t, i + 1, i + Len(search)) = search}
InWindow(t, search, start, boundary, window, upTo) ==
    {i \in BreakIndices(t, search) : i > start /\ i > boundary - window /\ i <= upTo}
ExpectedCut(t, start, size, upTo) ==
    LET boundary == start + size
        paragraphs == InWindow(t, PARAGRAPH, start, boundary, ParagraphWindow, upTo)
        sentences == InWindow(t, SENTENCE, start, boundary, SentenceWindow, upTo)
        spaces == InWindow(t, SPACE, start, boundary, size, upTo)
    IN  IF paragraphs # {} THEN SetMax(paragraphs) + 2
        ELSE IF sentences # {} THEN SetMax(sentences) + 2
        ELSE IF spaces # {} THEN SetMax(spaces) + 1
        ELSE boundary
Searched(i) == cuts[i][1] + chunkSize < Len(text)

\* C22 as stated: for each chunk whose target boundary start + chunkSize
\* lies inside the text, the cut is just after the last paragraph break
\* within 200 characters before the boundary, else just after the last
\* sentence break within 100 characters before it, else just after the
\* last space after the chunk's start and before the boundary, else at
\* the boundary.
C22_CutBeforeBoundary ==
    \A i \in 1..Len(cuts) :
        Searched(i) =>
            cuts[i][2] = ExpectedCut(text, cuts[i][1], chunkSize,
                                     cuts[i][1] + chunkSize - 1)
\* C22 amended: the same priority order with every break looked for at the
\* indices after the chunk's start up to and including the boundary, the
\* paragraph break less than 200 and the sentence break less than 100
\* characters before it; a chunk whose boundary is not inside the text is
\* cut at the boundary.
C22_CutPriority ==
    \A i \in 1..Len(cuts) :
        IF Searched(i)
        THEN cuts[i][2] = ExpectedCut(text, cuts[i][1], chunkSize,
                                      cuts[i][1] + chunkSize)
        ELSE cuts[i][2] = cuts[i][1] + chunkSize
C22_Witness ==
    /\ cpc = "done"
    /\ Len(cuts) >= 2
    /\ Searched(1)
    /\ BreakIndices(text, PARAGRAPH) = {chunkSize - ParagraphWindow}
    /\ \E s \in BreakIndices(text, SENTENCE) :
          /\ s = chunkSize - SentenceWindow + 1
          /\ cuts[1][2] = s + 2
    /\ \E w \in BreakIndices(text, SPACE) : w > cuts[1][2] /\ w < chunkSize

\* ------------------------------------------- claims on the token ceiling
\* C23: a handler calls the chunker, with its default chunk size and
\* overlap, exactly when the text has more than MAX_TOKENS * CharsPerToken
\* characters, i.e. when its estimate exceeds MAX_TOKENS; otherwise the
\* whole text is the one chunk, a text whose estimate is exactly MAX_TOKENS
\* included.
C23_ChunkedIffOver ==
    (Ingesting /\ cpc # "ingest") =>
        /\ chunkerCalled["A"] <=> Len(text) > MAX_TOKENS * CharsPerToken
        /\ chunkerCalled["A"] =>
              /\ chunkSize = DefaultChunkSize /\ overlap = DefaultOverlap
              /\ cpc = "done" => Len(chunks) > 1
        /\ ~chunkerCalled["A"] => cpc = "done" /\ chunks = <<text>>
C23_Witness ==
    /\ Ingesting
    /\ cpc = "done"
    /\ Len(text) = MAX_TOKENS * CharsPerToken
    /\ estimatedTokens = MAX_TOKENS
    /\ ~chunkerCalled["A"]
    /\ chunks = <<text>>

\* --------------------------------------------------- claims on titles
\* The records built for the document, stored or still in contextItems.
TitledRecords ==
    {db[k] : k \in DOMAIN db}
        \cup {contextItems["A"][k] : k \in DOMAIN contextItems["A"]}
\* The chunk's first line without surrounding whitespace, cut to
\* PreviewLength characters, with the given mark after a cut.
LineOf(chunk) ==
    LET breaks == {i \in DOMAIN chunk : chunk[i] = "\n"}
    IN  IF breaks = {} THEN chunk
        ELSE SubSeq(chunk, 1, (CHOOSE i \in breaks : \A j \in breaks : i <= j) - 1)
PreviewOf(chunk, mark) ==
    LET line == trim(LineOf(chunk))
    IN  IF Len(line) > PreviewLength
        THEN SubSeq(line, 1, PreviewLength) \o mark
        ELSE line
TitlesAre(mark) ==
    \A r \in TitledRecords :
        /\ r.origin = ORIGIN
        /\ r.content = chunks[r.chunkIndex + 1]
        /\ r.title = IF Len(chunks) > 1
                     THEN FILENAME \o <<" ", "(", "c", "h", "u", "n", "k", " ">>
                            \o Decimal(r.chunkIndex + 1) \o <<")", " ", "-", " ">>
                            \o PreviewOf(r.content, mark)
                     ELSE FILENAME
        /\ \A q \in TitledRecords :
              q # r => q.chunkIndex # r.chunkIndex /\ q.title # r.title

\* C24 as stated: with more than one chunk the record of chunk index i is
\* titled "<baseTitle> (chunk i+1) - <preview>", the preview being the
\* trimmed first line cut to PreviewLength characters; the records share
\* the origin and differ in the chunk number; with one chunk the title is
\* baseTitle.
C24_PreviewCut == TitlesAre(<<>>)
\* C24 amended: the same, the preview of a first line longer than
\* PreviewLength characters being its first PreviewLength characters
\* followed by "...".
C24_PreviewEllipsis == TitlesAre(<<".", ".", ".">>)
C24_Witness ==
    /\ Len(chunks) > 1
    /\ Len(db) = Len(chunks)
    /\ db[1].chunkIndex = 1
    /\ Len(db[1].title) < Len(db[2].title)
    /\ Len(trim(LineOf(db[2].content))) > PreviewLength
    /\ Len(LineOf(db[1].content)) # Len(trim(LineOf(db[1].content)))

\* ------------------------------------- claims on failures and ordering
\* C25: when a store write fails during an ingestion call, the records of
\* the other call's completed appends and of the chunks the call appended
\* itself stay in the collection, and the chunk (upload) or the chunks
\* (scrape) whose write failed have no record in it.
C25_FailedWriteLeavesNothing ==
    \A c \in Calls :
        StoreFailed(c) =>
            /\ \A d \in Calls : \A i \in ChunkIndices(d) :
                  (Appended(d, i) /\ (d = c => kind[c] = "file")) =>
                      Len(RecordsOfChunk(d, i)) = 1
            /\ \A i \in ChunkIndices(c) :
                  results[c][i + 1] = "storeError" =>
                      Len(RecordsOfChunk(c, i)) = 0
            /\ report[c].error = "storeError" => Len(RecordsOf(c)) = 0

\* C26: the report of a call is a function of the per-chunk outcomes alone,
\* whatever the order in which the embeddings arrived: the counts, one
\* entry per successful chunk in ascending chunk-index order, the upload's
\* failed entries likewise, and every record of the call tagged with the
\* index of the chunk it holds.
C26_ReportOrderIndependent ==
    \A c \in Calls :
        (Ingested(c) /\ report[c].error = "") =>
            /\ report[c].totalChunks = Len(results[c])
            /\ report[c].successfulChunks = Len(SuccessfulChunks(results[c]))
            /\ report[c].failedCount = Len(FailedChunks(results[c]))
            /\ report[c].chunks = SuccessfulChunks(results[c])
            /\ kind[c] = "file" => report[c].failedChunks = FailedChunks(results[c])
            /\ \A k \in DOMAIN db :
                  db[k].call = c =>
                      /\ db[k].chunkIndex \in ChunkIndices(c)
                      /\ db[k].content = TextChunks(content[c])[db[k].chunkIndex + 1]

\* C27: once every request has returned, the collection holds exactly one
\* record for each chunk whose embedding succeeded and none for the others,
\* whatever the interleaving of the two calls' steps (calls without a
\* failed store write).
Returned == \A c \in Calls : hpc[c] = "done"
Embedded(c) == {i \in ChunkIndices(c) : results[c][i + 1] = "ok"}
C27_OneRecordPerEmbedded ==
    Returned =>
        /\ \A c \in Calls :
              ~StoreFailed(c) =>
                  /\ \A i \in ChunkIndices(c) :
                        Len(RecordsOfChunk(c, i)) = IF i \in Embedded(c) THEN 1 ELSE 0
                  /\ Len(RecordsOf(c)) = Cardinality(Embedded(c))
        /\ (\A c \in Calls : ~StoreFailed(c)) =>
              Len(db) = Cardinality(Embedded("A")) + Cardinality(Embedded("B"))
C27_Witness ==
    /\ Returned
    /\ \A c \in Calls : kind[c] = "file" /\ Embedded(c) = {0, 1}
    /\ Len(db) = 4
    /\ db[1].call = "A" /\ db[1].chunkIndex = 1
    /\ db[2].call = "B" /\ db[3].call = "B"
    /\ db[4].call = "A"

\* C28: every text a handler passes to the embedding provider, i.e. every
\* chunk once the chunks are there, has at most MAX_TOKENS * CharsPerToken
\* characters, so an estimate of at most MAX_TOKENS: an unchunked text is
\* within that length, and a chunk of the default chunker has at most
\* DefaultChunkSize + 2 characters.
C28_EmbeddedWithinBudget ==
    (Ingesting /\ cpc = "done") =>
        /\ ~chunkerCalled["A"] => Len(text) <= MAX_TOKENS * CharsPerToken
        /\ \A i \in 1..Len(chunks) :
              /\ Len(chunks[i]) <= MAX_TOKENS * CharsPerToken
              /\ estimateTokenCount(chunks[i]) <= MAX_TOKENS
              /\ chunkerCalled["A"] => Len(chunks[i]) <= DefaultChunkSize + 2
C28_Witness ==
    /\ Ingesting
    /\ cpc = "done"
    /\ chunkerCalled["A"]
    /\ Len(chunks[1]) = DefaultChunkSize + 2
    /\ Len(chunks) > 2

\* --------------------------------------------------- claims on scraping
\* The scraping has ended with a content.
Scraped == spc \in {"scraped", "stored"}
\* C29: scrapeDynamicContent is called at most once per request.  After a
\* failed or non-200 fetch the content is the dynamic one, or the request
\* fails and leaves no record.  With CSR detected the content is the
\* dynamic one or, the dynamic attempt failing, the static one with method
\* "static (fallback)", short or not.  A static content under
\* MinStaticLength characters is followed by one dynamic attempt, and kept
\* with method "static (dynamic fallback failed)" when that fails.
C29_DynamicAtMostOnce ==
    /\ dynamicAttempts <= 1
    /\ spc = "failed" =>
          /\ db = <<>>
          /\ report["A"].error # ""
          /\ site.fetch # "ok" => dynamicAttempts = 1
    /\ (Scraped /\ site.fetch # "ok") =>
          /\ dynamicAttempts = 1
          /\ scrapingMethod = "dynamic"
          /\ scrapedLength = site.dynamicLength
    /\ (Scraped /\ site.fetch = "ok" /\ site.csr) =>
          /\ dynamicAttempts = 1
          /\ \/ scrapingMethod = "dynamic" /\ scrapedLength = site.dynamicLength
             \/ scrapingMethod = "static (fallback)"
                    /\ scrapedLength = site.staticLength
    /\ (Scraped /\ site.fetch = "ok" /\ ~site.csr) =>
          IF site.staticLength < MinStaticLength
          THEN /\ dynamicAttempts = 1
               /\ \/ scrapingMethod = "dynamic"
                        /\ scrapedLength = site.dynamicLength
                  \/ scrapingMethod = "static (dynamic fallback failed)"
                        /\ scrapedLength = site.staticLength
          ELSE /\ dynamicAttempts = 0
               /\ scrapingMethod = "static"
               /\ scrapedLength = site.staticLength
    /\ spc = "stored" => Len(db) = 1 /\ Len(db[1].content) = scrapedLength
C29_Witness ==
    /\ spc = "stored"
    /\ site.fetch = "ok" /\ site.csr
    /\ scrapingMethod = "static (fallback)"
    /\ scrapedLength < MinStaticLength
    /\ dynamicAttempts = 1

\* ----------------------------------------------- claims on the prompt
PartsNamed(name) == SelectSeq(context, LAMBDA p : p.part = name)
TokensOf(length) == (length + CharsPerToken - 1) \div CharsPerToken
\* The running estimate before the item of rank j is looked at.
RunningBefore(j) ==
    LET R[i \in 1..j] ==
            IF i = 1 THEN TokensOf(context[1].length) + HeaderTokens
            ELSE R[i - 1] + TokensOf(found[i - 1].length) + SeparatorTokens
    IN  R[j]

\* C30: the items in the prompt context are the records found at ranks
\* 1..k, in that order; each was added with running estimate plus own
\* estimate within PromptTokenLimit; the marker is there at most once, and
\* in the finished context exactly when the item of rank k + 1 exists and
\* was rejected for exceeding the limit, after which nothing was added.
C30_PromptPrefix ==
    ppc # "start" =>
        LET items == PartsNamed("item")
            k == Len(items)
        IN  /\ k <= Len(found)
            /\ \A j \in 1..k :
                  /\ items[j].id = found[j].id
                  /\ items[j].length = found[j].length
                  /\ RunningBefore(j) + TokensOf(found[j].length) <= PromptTokenLimit
            /\ Len(PartsNamed("marker")) <= 1
            /\ ppc = "done" =>
                  IF k < Len(found)
                  THEN /\ Len(PartsNamed("marker")) = 1
                       /\ context[Len(context)].part = "marker"
                       /\ RunningBefore(k + 1) + TokensOf(found[k + 1].length)
                              > PromptTokenLimit
                  ELSE Len(PartsNamed("marker")) = 0
C30_Witness ==
    /\ ppc = "done"
    /\ Len(found) = RetrievalLimit
    /\ Len(PartsNamed("item")) = 2
    /\ Len(PartsNamed("marker")) = 1
    /\ RunningBefore(3) + TokensOf(found[4].length) <= PromptTokenLimit

=============================================================================
